---- MODULE Spec2Model ----
(***************************************************************************)
(* A model of lib/git.js of gerrit-cli: the configuration wrappers         *)
(* git.config.{get,set,add,unset,unsetMatching,subsections,removeSection,  *)
(* renameSection,sectionExists} and the synchronous process primitives     *)
(* git.run / git.exec they are built on; the streaming primitive git.show  *)
(* with its child process and promise; and callers whose read-then-write   *)
(* operations interleave invocation by invocation.                         *)
(*                                                                         *)
(* Text is modelled as sequences of one-character strings, so that         *)
(* trimRight, split, the regular expressions and the string concatenations *)
(* of the source are computed and not assumed.  The external executable is *)
(* modelled by GitConfig, an interpreter of the argument vectors the       *)
(* wrappers build, over a store of two configuration files (global and     *)
(* local; the system file is taken to be empty).                           *)
(***************************************************************************)
EXTENDS Naturals, Integers, Sequences, FiniteSets, TLC

(***************************************************************************)
(* Bounds                                                                  *)
(***************************************************************************)
\* entries the two configuration files may hold together
MaxEntries == 2
\* concurrent invocations of git.show
MaxShows == 2
\* chunks a child writes to its stderr
MaxChunks == 1
\* callers running read-then-write operations against one store
MaxCallers == 2
\* length of a value list passed to set / add / unsetMatching
MaxVals == 2
\* the latest invocation of a call the environment may make fail
MaxFaultAt == 2

(***************************************************************************)
(* Text                                                                    *)
(***************************************************************************)
NL == "\n"
SP == " "
DOT == "."
BSL == "\\"

\* the value JavaScript calls undefined, as a list element
Undefined == <<"<undefined>">>

IsWhite(c) == c \in {SP, NL, "\t", "\r"}

\* String.prototype.trimRight: strips every trailing white-space character
RECURSIVE TrimRightAll(_)
TrimRightAll(s) ==
  IF s = <<>> THEN <<>>
  ELSE IF IsWhite(s[Len(s)]) THEN TrimRightAll(SubSeq(s, 1, Len(s) - 1))
  ELSE s

trimRight(s) == TrimRightAll(s)

\* position of the first c in s at or after i, 0 if none
RECURSIVE IndexFrom(_, _, _)
IndexFrom(s, c, i) ==
  IF i > Len(s) THEN 0
  ELSE IF s[i] = c THEN i
  ELSE IndexFrom(s, c, i + 1)

\* position of the last c in s at or before i, 0 if none
RECURSIVE LastIndexFrom(_, _, _)
LastIndexFrom(s, c, i) ==
  IF i < 1 THEN 0
  ELSE IF s[i] = c THEN i
  ELSE LastIndexFrom(s, c, i - 1)

\* String.prototype.split(sep) for a one-character separator
RECURSIVE split(_, _)
split(s, sep) ==
  LET i == IndexFrom(s, sep, 1)
  IN IF i = 0 THEN <<s>>
     ELSE <<SubSeq(s, 1, i - 1)>> \o split(SubSeq(s, i + 1, Len(s)), sep)

\* String.prototype.substr(start) with a zero-based start
substr(s, start) == SubSeq(s, start + 1, Len(s))

\* s.replace(/\.[^.]*$/, ""): drops the last dot and what follows it
StripLastDotSuffix(s) ==
  LET i == LastIndexFrom(s, DOT, Len(s))
  IN IF i = 0 THEN s ELSE SubSeq(s, 1, i - 1)

\* the concatenation of a sequence of sequences
RECURSIVE Concat(_)
Concat(ss) == IF ss = <<>> THEN <<>> ELSE Head(ss) \o Concat(Tail(ss))

\* the elements of a sequence
Range(s) == {s[i] : i \in 1..Len(s)}

\* the subsequence of s of the elements satisfying Test
SelectIn(s, keep) == SelectSeq(s, LAMBDA e : e \in keep)
SelectOut(s, drop) == SelectSeq(s, LAMBDA e : e \notin drop)

(***************************************************************************)
(* Regular expressions, as far as the patterns of the source need them:    *)
(* a leading ^, a trailing $, the wildcard . , an escaped character \c,    *)
(* and literal characters.                                                 *)
(***************************************************************************)
\* does pattern p from position i match s from position j (a prefix of it,
\* unless the pattern ends with $)
RECURSIVE MatchHere(_, _, _, _)
MatchHere(p, i, s, j) ==
  IF i > Len(p) THEN TRUE
  ELSE IF p[i] = "$" /\ i = Len(p) THEN j > Len(s)
  ELSE IF p[i] = BSL /\ i < Len(p)
       THEN j <= Len(s) /\ s[j] = p[i + 1] /\ MatchHere(p, i + 2, s, j + 1)
  ELSE IF p[i] = DOT
       THEN j <= Len(s) /\ s[j] # NL /\ MatchHere(p, i + 1, s, j + 1)
  ELSE j <= Len(s) /\ s[j] = p[i] /\ MatchHere(p, i + 1, s, j + 1)

RegexMatches(p, s) ==
  IF p # <<>> /\ p[1] = "^" THEN MatchHere(p, 2, s, 1)
  ELSE \E j \in 1..(Len(s) + 1) : MatchHere(p, 1, s, j)

(***************************************************************************)
(* Command-line arguments.  An argument is a text.  The fixed words of the  *)
(* wrappers ("config", "--add") are texts of one token, which no text of a *)
(* caller (a key, a value, a pattern: a sequence of characters) equals.    *)
(* A call of git.run / git.exec passes a sequence of groups, each a        *)
(* sequence of arguments: flags is a group of its own.                     *)
(***************************************************************************)
W(w) == <<w>>
S(s) == s

\* _.flattenDeep(arguments): one flat list, relative order kept
flattenDeep(groups) == Concat(groups)

(***************************************************************************)
(* The store: the external executable's configuration files.  A file is    *)
(* the sequence of its entries in file order.                              *)
(***************************************************************************)
Files == {"global", "local"}

EmptyStore == [f \in Files |-> <<>>]

Entry(k, v) == [key |-> k, val |-> v]

\* the section (with its subsection) a key belongs to: the key up to its last dot
SectionOf(key) == StripLastDotSuffix(key)

\* the variable name of a key: what follows its last dot
NameOf(key) == SubSeq(key, LastIndexFrom(key, DOT, Len(key)) + 1, Len(key))

\* the values of key in a sequence of entries, in order
ValuesOf(entries, key) ==
  LET Mine == SelectSeq(entries, LAMBDA e : e.key = key)
  IN [i \in 1..Len(Mine) |-> Mine[i].val]

\* position of the last entry of es that belongs to section sec, 0 if none
RECURSIVE LastOfSection(_, _, _)
LastOfSection(es, sec, i) ==
  IF i < 1 THEN 0
  ELSE IF SectionOf(es[i].key) = sec THEN i
  ELSE LastOfSection(es, sec, i - 1)

\* a new entry goes to the end of its section, or to the end of the file in
\* a new section
InsertEntry(es, e) ==
  LET i == LastOfSection(es, SectionOf(e.key), Len(es))
  IN IF i = 0 THEN Append(es, e)
     ELSE SubSeq(es, 1, i) \o <<e>> \o SubSeq(es, i + 1, Len(es))

\* the files a read consults, in order, and the file a write changes
ReadFiles(opts) ==
  IF "--global" \in opts THEN <<"global">>
  ELSE IF "--local" \in opts THEN <<"local">>
  ELSE <<"global", "local">>

WriteFile(opts) == IF "--global" \in opts THEN "global" ELSE "local"

ReadEntries(st, opts) ==
  Concat([i \in 1..Len(ReadFiles(opts)) |-> st[ReadFiles(opts)[i]]])

ActionWords ==
  {"--add", "--get-all", "--get-regexp", "--unset", "--unset-all",
   "--remove-section", "--rename-section"}

\* an argument that is an option of git config
IsOption(a) == a # <<>> /\ a[1] \in ActionWords \cup {"--global", "--local"}

\* the result of one run of the executable
Ran(status, stdout, stderr, st) ==
  [spawned |-> TRUE, status |-> status, stdout |-> stdout, stderr |-> stderr,
   st |-> st]

\* the executable could not be started: spawnSync reports it in the result,
\* whose status and streams are null
NotSpawned(st) ==
  [spawned |-> FALSE, status |-> 0 - 1, stdout |-> <<>>, stderr |-> <<>>,
   st |-> st]

ErrText == <<"e", "r", "r", NL>>

Failed(status, st) == Ran(status, <<>>, ErrText, st)

\* the lines the executable prints: each followed by a newline
RECURSIVE PrintLines(_)
PrintLines(lines) ==
  IF lines = <<>> THEN <<>>
  ELSE Head(lines) \o <<NL>> \o PrintLines(Tail(lines))

\* the leading option words of an argument list
NumOptions(rest) ==
  IF \A i \in 1..Len(rest) : IsOption(rest[i]) THEN Len(rest)
  ELSE (CHOOSE i \in 1..Len(rest) :
          /\ ~IsOption(rest[i])
          /\ \A j \in 1..(i - 1) : IsOption(rest[j])) - 1

OptionWords(rest) == {rest[i][1] : i \in 1..NumOptions(rest)}

\* the positional arguments that follow them
Positionals(rest) == SubSeq(rest, NumOptions(rest) + 1, Len(rest))

\* the action the options ask for; a plain read without one
ActionOf(opts) ==
  IF opts \cap ActionWords = {} THEN "--get"
  ELSE CHOOSE a \in opts \cap ActionWords : TRUE

\* git config [scope] <key>: the last value
GitGet(vs, st) ==
  IF vs = <<>> THEN Ran(1, <<>>, <<>>, st)
  ELSE Ran(0, vs[Len(vs)] \o <<NL>>, <<>>, st)

\* git config [scope] --get-all <key>: every value, one per line
GitGetAll(vs, st) ==
  IF vs = <<>> THEN Ran(1, <<>>, <<>>, st)
  ELSE Ran(0, PrintLines(vs), <<>>, st)

\* git config [scope] --get-regexp <pattern>: "key value" lines
GitGetRegexp(hit, st) ==
  IF hit = <<>> THEN Ran(1, <<>>, <<>>, st)
  ELSE Ran(0, PrintLines([i \in 1..Len(hit) |->
                            hit[i].key \o <<SP>> \o hit[i].val]),
           <<>>, st)

\* git config [scope] --add <key> <value>
GitAdd(file, key, val, st) ==
  Ran(0, <<>>, <<>>, [st EXCEPT ![file] = InsertEntry(st[file], Entry(key, val))])

\* the entries of key an unset is about: all, or those whose value the
\* pattern matches
UnsetHits(es, key, pos) ==
  SelectSeq(es, LAMBDA e : /\ e.key = key
                           /\ (Len(pos) = 2 => RegexMatches(pos[2], e.val)))

UnsetRest(es, key, pos) ==
  SelectSeq(es, LAMBDA e : ~(/\ e.key = key
                             /\ (Len(pos) = 2 => RegexMatches(pos[2], e.val))))

\* git config [scope] --unset | --unset-all <key> [<value-pattern>]
GitUnset(act, file, n, pos, st) ==
  IF n = 0 THEN Failed(5, st)
  ELSE IF n > 1 /\ act = "--unset" THEN Failed(5, st)
  ELSE Ran(0, <<>>, <<>>, [st EXCEPT ![file] = UnsetRest(st[file], pos[1], pos)])

HasSection(es, sec) == \E i \in 1..Len(es) : SectionOf(es[i].key) = sec

\* git config [scope] --remove-section <name>
GitRemoveSection(file, sec, st) ==
  IF ~HasSection(st[file], sec) THEN Failed(128, st)
  ELSE Ran(0, <<>>, <<>>,
           [st EXCEPT ![file] =
              SelectSeq(st[file], LAMBDA e : SectionOf(e.key) # sec)])

\* git config [scope] --rename-section <old> <new>
GitRenameSection(file, sec, new, st) ==
  IF ~HasSection(st[file], sec) THEN Failed(128, st)
  ELSE Ran(0, <<>>, <<>>,
           [st EXCEPT ![file] =
              [i \in 1..Len(st[file]) |->
                 IF SectionOf(st[file][i].key) = sec
                 THEN Entry(new \o <<DOT>> \o NameOf(st[file][i].key),
                            st[file][i].val)
                 ELSE st[file][i]]])

GitConfigAct(act, opts, pos, st) ==
  IF act = "--get" /\ Len(pos) = 1
  THEN GitGet(ValuesOf(ReadEntries(st, opts), pos[1]), st)
  ELSE IF act = "--get-all" /\ Len(pos) = 1
  THEN GitGetAll(ValuesOf(ReadEntries(st, opts), pos[1]), st)
  ELSE IF act = "--get-regexp" /\ Len(pos) = 1
  THEN GitGetRegexp(SelectSeq(ReadEntries(st, opts),
                              LAMBDA e : RegexMatches(pos[1], e.key)), st)
  ELSE IF act = "--add" /\ Len(pos) = 2
  THEN GitAdd(WriteFile(opts), pos[1], pos[2], st)
  ELSE IF act \in {"--unset", "--unset-all"} /\ Len(pos) \in {1, 2}
  THEN GitUnset(act, WriteFile(opts),
                Len(UnsetHits(st[WriteFile(opts)], pos[1], pos)), pos, st)
  ELSE IF act = "--remove-section" /\ Len(pos) = 1
  THEN GitRemoveSection(WriteFile(opts), pos[1], st)
  ELSE IF act = "--rename-section" /\ Len(pos) = 2
  THEN GitRenameSection(WriteFile(opts), pos[1], pos[2], st)
  ELSE Failed(129, st)

GitConfigRun(opts, pos, st) ==
  IF {"--global", "--local"} \subseteq opts THEN Failed(129, st)
  ELSE IF Cardinality(opts \cap ActionWords) > 1 \/ Len(pos) = 0
  THEN Failed(129, st)
  ELSE GitConfigAct(ActionOf(opts), opts, pos, st)

\* "git config ..." on the flat argument vector argv
GitConfig(argv, st) ==
  IF argv = <<>> \/ argv[1] # W("config") THEN Failed(1, st)
  ELSE GitConfigRun(OptionWords(Tail(argv)), Positionals(Tail(argv)), st)

(***************************************************************************)
(* JavaScript values returned to the caller.                               *)
(***************************************************************************)
JVal(kind, str, list, map, bool) ==
  [kind |-> kind, str |-> str, list |-> list, map |-> map, bool |-> bool]

JNull == JVal("null", <<>>, <<>>, <<>>, FALSE)
JUndefined == JVal("undefined", <<>>, <<>>, <<>>, FALSE)
JStr(s) == JVal("string", s, <<>>, <<>>, FALSE)
\* an array of strings
JList(l) == JVal("array", <<>>, l, <<>>, FALSE)
\* a plain object: its properties in insertion order, each with a list
JMap(m) == JVal("object", <<>>, <<>>, m, FALSE)
JBool(b) == JVal("boolean", <<>>, <<>>, <<>>, b)

\* _.castArray
castArray(v) == IF v.kind = "array" THEN v.list ELSE <<v.str>>

\* _.difference(a, b): the elements of a that are not in b, in a's order
difference(a, b) == SelectOut(a, Range(b))

\* _.uniq: the first occurrence of each element
RECURSIVE uniq(_)
uniq(a) ==
  IF a = <<>> THEN <<>>
  ELSE LET front == uniq(SubSeq(a, 1, Len(a) - 1))
       IN IF a[Len(a)] \in Range(front) THEN front
          ELSE Append(front, a[Len(a)])

\* _.intersection(a, b): the unique elements of a that are in b, in a's order
intersection(a, b) == uniq(SelectIn(a, Range(b)))

\* _.extend({}, a, b): b's properties over a's
extend(a, b) ==
  [n \in (DOMAIN a) \cup (DOMAIN b) |-> IF n \in DOMAIN b THEN b[n] ELSE a[n]]

\* the options object of a caller who passes none
NoOptions == [x \in {} |-> FALSE]

(***************************************************************************)
(* The process primitives.  A context c carries the store, the argument    *)
(* vectors run so far by the operation in progress, and the fault the      *)
(* environment injects: f.at is the number of the invocation that fails    *)
(* (0: none), f.kind how ("exit": the executable ends with a non-zero      *)
(* status and changes nothing, e.g. a locked file; "spawn": it cannot be   *)
(* started).                                                               *)
(***************************************************************************)
NoFault == [at |-> 0, kind |-> "exit"]

Ctx(st, f) == [st |-> st, log |-> <<>>, f |-> f]

\* spawn.sync("git", args): the external run
spawnSync(argv, c) ==
  IF c.f.at = Len(c.log) + 1
  THEN IF c.f.kind = "spawn" THEN NotSpawned(c.st) ELSE Failed(255, c.st)
  ELSE GitConfig(argv, c.st)

\* git.run
RunResult(r, args, c) ==
  [r |-> r, c |-> [c EXCEPT !.st = r.st, !.log = Append(c.log, args)]]

run(groups, c) ==
  RunResult(spawnSync(flattenDeep(groups), c), flattenDeep(groups), c)

GitError(code, command, output, error) ==
  [code |-> code, command |-> command, output |-> output, error |-> error]

NoError == GitError(0, <<>>, <<>>, <<>>)

\* what a call hands back: raised is "none", "GitError" or "TypeError"
Outcome(raised, err, val, c) ==
  [raised |-> raised, err |-> err, val |-> val, c |-> c]

\* git.exec(args) after its run: args names the first argument only
ExecResult(x, args) ==
  IF ~x.r.spawned
  \* status is null and so are the streams: null.trimRight() throws
  THEN Outcome("TypeError", NoError, JUndefined, x.c)
  ELSE IF x.r.status # 0
  THEN Outcome("GitError",
               GitError(x.r.status, args, trimRight(x.r.stdout),
                        trimRight(x.r.stderr)),
               JUndefined, x.c)
  ELSE Outcome("none", NoError, JStr(trimRight(x.r.stdout)), x.c)

exec(groups, c) == ExecResult(run(groups, c), Head(groups))

\* the scope flags every wrapper pushes
ScopeFlags(options) ==
  (IF options["global"] THEN <<W("--global")>> ELSE <<>>)
  \o (IF options["local"] THEN <<W("--local")>> ELSE <<>>)

(***************************************************************************)
(* git.config.get                                                          *)
(***************************************************************************)
GetDefaults ==
  [global |-> FALSE, local |-> FALSE, all |-> FALSE, regex |-> FALSE]

\* line.match(/^(.*?)( (.*))?$/): the text before the first space and the
\* text after it (undefined without a space); null when the line holds a
\* character the dot does not match
LineMatch(line) ==
  LET i == IndexFrom(line, SP, 1)
  IN IF \E j \in 1..Len(line) : line[j] \in {NL, "\r"}
     THEN [null |-> TRUE, m1 |-> <<>>, m3 |-> <<>>]
     ELSE IF i = 0 THEN [null |-> FALSE, m1 |-> line, m3 |-> Undefined]
     ELSE [null |-> FALSE, m1 |-> SubSeq(line, 1, i - 1),
           m3 |-> SubSeq(line, i + 1, Len(line))]

\* output[k].push(v), creating output[k] when the object has none
PushTo(map, k, v) ==
  IF \E i \in 1..Len(map) : map[i].key = k
  THEN [i \in 1..Len(map) |->
          IF map[i].key = k
          THEN [key |-> k, vals |-> Append(map[i].vals, v)]
          ELSE map[i]]
  ELSE Append(map, [key |-> k, vals |-> <<v>>])

\* lines.forEach(...) of the regex branch
RECURSIVE GroupLines(_, _)
GroupLines(lines, map) ==
  IF lines = <<>> THEN map
  ELSE LET m == LineMatch(Head(lines))
       IN GroupLines(Tail(lines), PushTo(map, m.m1, m.m3))

\* what the catch clause of get returns
GetMiss(options) ==
  IF options["all"] \/ options["regex"] THEN JList(<<>>) ELSE JNull

\* GetFlags asking for the removal of what it is to read
GetFlagsUnsets(options) == ScopeFlags(options) \o <<W("--unset-all")>>

\* the flags get pushes
GetFlags(options) ==
  ScopeFlags(options)
  \o (IF options["all"] THEN <<W("--get-all")>> ELSE <<>>)
  \o (IF options["regex"] THEN <<W("--get-regexp")>> ELSE <<>>)

\* the regex branch, on the lines of the output
GetRegexResult(lines, c) ==
  IF \E i \in 1..Len(lines) : LineMatch(lines[i]).null
  THEN Outcome("TypeError", NoError, JUndefined, c)
  ELSE Outcome("none", NoError, JMap(GroupLines(lines, <<>>)), c)

\* get after its invocation e: the catch clause, then the three modes
GetResult(options, e) ==
  IF e.raised # "none" THEN Outcome("none", NoError, GetMiss(options), e.c)
  ELSE IF options["all"]
  THEN Outcome("none", NoError, JList(split(e.val.str, NL)), e.c)
  ELSE IF options["regex"] THEN GetRegexResult(split(e.val.str, NL), e.c)
  ELSE Outcome("none", NoError, e.val, e.c)

GetWith(key, options, c) ==
  GetResult(options,
            exec(<< <<W("config")>>, GetFlags(options), <<S(key)>> >>, c))

ConfigGet(key, opts, c) == GetWith(key, extend(GetDefaults, opts), c)

(***************************************************************************)
(* git.config.unset, git.config.set, git.config.add                        *)
(***************************************************************************)
ScopeDefaults == [global |-> FALSE, local |-> FALSE]

\* a wrapper that returns nothing hands back undefined
Void(e) == [e EXCEPT !.val = JUndefined]

UnsetWith(key, options, c) ==
  Void(exec(<< <<W("config")>>, <<W("--unset-all")>>, ScopeFlags(options),
               <<S(key)>> >>, c))

ConfigUnset(key, opts, c) == UnsetWith(key, extend(ScopeDefaults, opts), c)

SetDefaults ==
  [global |-> FALSE, local |-> FALSE, add |-> FALSE, unique |-> FALSE]

\* the flags set pushes
SetFlags(options) == ScopeFlags(options) \o <<W("--add")>>

\* values.forEach(function(val) { git.exec("config", flags, key, val) }):
\* the first failing invocation ends the loop by its exception
RECURSIVE AddEach(_, _, _, _)
RECURSIVE AddNext(_, _, _, _)
AddEach(flags, key, vals, c) ==
  IF vals = <<>> THEN Outcome("none", NoError, JUndefined, c)
  ELSE AddNext(flags, key, vals,
               exec(<< <<W("config")>>, flags, <<S(key)>>,
                       <<S(Head(vals))>> >>, c))

\* AddNext going on to the next value after a failed invocation
AddNextSwallows(flags, key, vals, e) == AddEach(flags, key, Tail(vals), e.c)

AddNext(flags, key, vals, e) ==
  IF e.raised # "none" THEN e ELSE AddEach(flags, key, Tail(vals), e.c)

\* ClearStep clearing without the scope of the caller
ClearStepUnscoped(key, options, c) == ConfigUnset(key, NoOptions, c).c

\* the try { git.config.unset(key, options) } catch (e) {} of set
ClearStep(key, options, c) == ConfigUnset(key, options, c).c

\* the values set goes on to write
ValuesToWrite(values, options, current) ==
  IF options["add"] /\ options["unique"] THEN difference(values, current)
  ELSE values

\* return values
SetReturn(values, w) ==
  IF w.raised # "none" THEN w
  ELSE Outcome("none", NoError, JList(values), w.c)

\* the forEach and the return, on the values left to write
SetWrite(key, values, options, c) ==
  SetReturn(values, AddEach(SetFlags(options), key, values, c))

\* SetBranch returning the requested values where it wrote the remainder
SetBranchReturnsRequested(key, values, options, g, c) ==
  IF ~options["add"]
  THEN SetWrite(key, values, options, ClearStep(key, options, c))
  ELSE IF options["unique"]
  THEN IF g.raised # "none" THEN g
       ELSE SetReturn(values,
                      AddEach(SetFlags(options), key,
                              ValuesToWrite(values, options, g.val.list), g.c))
  ELSE SetWrite(key, values, options, c)

\* SetBranch running the clear step in the append modes as well
SetBranchAlwaysClears(key, values, options, g, c) ==
  IF options["add"] /\ options["unique"]
  THEN IF g.raised # "none" THEN g
       ELSE SetWrite(key, ValuesToWrite(values, options, g.val.list),
                     options, ClearStep(key, options, g.c))
  ELSE SetWrite(key, values, options, ClearStep(key, options, c))

\* the branch on options.add and options.unique, g being the read of the
\* current values
SetBranch(key, values, options, g, c) ==
  IF ~options["add"]
  THEN SetWrite(key, values, options, ClearStep(key, options, c))
  ELSE IF options["unique"]
  THEN IF g.raised # "none" THEN g
       ELSE SetWrite(key, ValuesToWrite(values, options, g.val.list),
                     options, g.c)
  ELSE SetWrite(key, values, options, c)

SetWith(key, values, options, c) ==
  SetBranch(key, values, options,
            ConfigGet(key, extend(options, [all |-> TRUE]), c), c)

ConfigSet(key, vals, opts, c) ==
  SetWith(key, castArray(vals), extend(SetDefaults, opts), c)

ConfigAdd(key, vals, opts, c) ==
  ConfigSet(key, vals, extend(opts, [add |-> TRUE]), c)

(***************************************************************************)
(* git.config.unsetMatching                                                *)
(***************************************************************************)
\* "^" + val + "$"
Anchored(val) == <<"^">> \o val \o <<"$">>

RECURSIVE UnsetEach(_, _, _, _)
RECURSIVE UnsetNext(_, _, _, _)
UnsetEach(flags, key, vals, c) ==
  IF vals = <<>> THEN Outcome("none", NoError, JUndefined, c)
  ELSE UnsetNext(flags, key, vals,
                 exec(<< <<W("config")>>, <<W("--unset")>>, flags, <<S(key)>>,
                         <<S(Anchored(Head(vals)))>> >>, c))

UnsetNext(flags, key, vals, e) ==
  IF e.raised # "none" THEN e ELSE UnsetEach(flags, key, Tail(vals), e.c)

\* the values unsetMatching goes on to remove
ValuesToUnset(values, current) == intersection(values, current)

UnsetMatchingWrite(key, values, options, c) ==
  SetReturn(values, UnsetEach(ScopeFlags(options), key, values, c))

UnsetMatchingBranch(key, values, options, g) ==
  IF g.raised # "none" THEN g
  ELSE UnsetMatchingWrite(key, ValuesToUnset(values, g.val.list), options, g.c)

UnsetMatchingWith(key, values, options, c) ==
  UnsetMatchingBranch(key, values, options,
                      ConfigGet(key, extend(options, [all |-> TRUE]), c))

ConfigUnsetMatching(key, vals, opts, c) ==
  UnsetMatchingWith(key, castArray(vals), extend(ScopeDefaults, opts), c)

(***************************************************************************)
(* Sections                                                                *)
(***************************************************************************)
\* git.config(key, options): the two-argument call with an options object
\* reads
Config2(key, options, c) == ConfigGet(key, options, c)

\* _.keys of an object or of an array of strings
keys(v) ==
  IF v.kind = "object" THEN [i \in 1..Len(v.map) |-> v.map[i].key]
  ELSE <<>>

\* "^" + section + "\\."
SectionPattern(section) == <<"^">> \o section \o <<BSL, DOT>>

\* subsection.substr(section.length + 1).replace(/\.[^.]*$/, "")
SubsectionName(section, k) == StripLastDotSuffix(substr(k, Len(section) + 1))

\* _.chain(configs).keys().map(...).value()
SubsectionsOf(section, ks) ==
  [i \in 1..Len(ks) |-> SubsectionName(section, ks[i])]

SubsectionsResult(section, g) ==
  IF g.raised # "none" THEN g
  ELSE Outcome("none", NoError, JList(SubsectionsOf(section, keys(g.val))), g.c)

ConfigSubsections(section, opts, c) ==
  SubsectionsResult(section,
                    Config2(SectionPattern(section),
                            extend(opts, [regex |-> TRUE]), c))

RemoveSectionWith(section, options, c) ==
  Void(exec(<< <<W("config")>>, <<W("--remove-section")>>,
               ScopeFlags(options), <<S(section)>> >>, c))

ConfigRemoveSection(section, opts, c) ==
  RemoveSectionWith(section, extend(ScopeDefaults, opts), c)

RenameSectionWith(section, name, options, c) ==
  Void(exec(<< <<W("config")>>, <<W("--rename-section")>>,
               ScopeFlags(options), <<S(section)>>, <<S(name)>> >>, c))

ConfigRenameSection(section, name, opts, c) ==
  RenameSectionWith(section, name, extend(ScopeDefaults, opts), c)

\* _.isEmpty of an object or an array
isEmpty(v) == IF v.kind = "object" THEN v.map = <<>> ELSE v.list = <<>>

SectionExistsResult(g) ==
  IF g.raised # "none" THEN g
  ELSE Outcome("none", NoError, JBool(~isEmpty(g.val)), g.c)

ConfigSectionExists(section, opts, c) ==
  SectionExistsResult(ConfigGet(SectionPattern(section),
                                extend(opts, [regex |-> TRUE]), c))

(***************************************************************************)
(* git.show: the streaming primitive.  A promise is pending, fulfilled or  *)
(* rejected; what it is settled with is nothing (undefined), an exit code, *)
(* the Error of a child's 'error' event, or a GitError.                    *)
(***************************************************************************)
QUOTE == "'"

\* the code of the close event of a child that was not started
SpawnFailCode == -2

PNothing == [kind |-> "undefined", code |-> 0, err |-> NoError]
PCode(code) == [kind |-> "code", code |-> code, err |-> NoError]
PSpawnError == [kind |-> "Error", code |-> 0, err |-> NoError]
PGitError(e) == [kind |-> "GitError", code |-> 0, err |-> e]

Pending == [state |-> "pending", val |-> PNothing, n |-> 0]

\* Settle letting a later call settle the promise again
SettleAgain(p, state, val) == [state |-> state, val |-> val, n |-> p.n + 1]

\* resolve / reject of a promise: only the first call settles it; n counts
\* the calls that changed it
Settle(p, state, val) ==
  IF p.state = "pending"
  THEN [state |-> state, val |-> val, n |-> p.n + 1]
  ELSE p

\* _.flatten(_.isArray(args) ? args : arguments), one level deep
flatten(argv) ==
  Concat([i \in 1..Len(argv) |->
            IF argv[i].kind = "array" THEN argv[i].list ELSE <<argv[i].str>>])

ShowArgs(arguments) ==
  IF arguments # <<>> /\ Head(arguments).kind = "array"
  THEN Head(arguments).list
  ELSE flatten(arguments)

\* Array.prototype.join
RECURSIVE join(_, _)
join(ss, sep) ==
  IF ss = <<>> THEN <<>>
  ELSE IF Len(ss) = 1 THEN Head(ss)
  ELSE Head(ss) \o sep \o join(Tail(ss), sep)

\* args.map(function(a) { return "'" + a + "'"; }).join(" ")
concatArgs(args) ==
  join([i \in 1..Len(args) |-> <<QUOTE>> \o args[i] \o <<QUOTE>>], <<SP>>)

\* Buffer.concat(bufStdErr).toString().trimRight()
errOutput(bufStdErr) == trimRight(Concat(bufStdErr))

\* the function given to then, on the code the promise was resolved with
ThenCode(code, args, bufStdErr) ==
  IF code # 0
  THEN [state |-> "rejected",
        val |-> PGitError(GitError(code, concatArgs(args), <<>>,
                                   errOutput(bufStdErr)))]
  ELSE [state |-> "fulfilled", val |-> PNothing]

\* Then turning the rejection of a spawn failure into a GitError
ThenWrapsError(inner, args, bufStdErr) ==
  IF inner.state = "fulfilled"
  THEN ThenCode(inner.val.code, args, bufStdErr)
  ELSE ThenCode(SpawnFailCode, args, bufStdErr)

\* then(f) of a settled promise: f runs on a fulfilment, a rejection
\* passes through
Then(inner, args, bufStdErr) ==
  IF inner.state = "fulfilled"
  THEN ThenCode(inner.val.code, args, bufStdErr)
  ELSE [state |-> "rejected", val |-> inner.val]

(***************************************************************************)
(* The callers' inputs                                                     *)
(***************************************************************************)
KeyOriginUrl == <<"r", DOT, "o", DOT, "u">>
KeyOriginFetch == <<"r", DOT, "o", DOT, "f">>
KeyUpstreamUrl == <<"r", DOT, "p", DOT, "u">>

Keys == {KeyOriginUrl, KeyUpstreamUrl}

ValA == <<"a">>
ValATrail == <<"a", SP>>

Values == {ValA, ValATrail}

SeqsUpTo(A, n) == UNION {[1..m -> A] : m \in 0..n}

\* a scalar value or an array of values
ValueArgs(V) == {JStr(v) : v \in V} \cup {JList(l) : l \in SeqsUpTo(V, MaxVals)}

SecR == <<"r">>
SecOrigin == <<"r", DOT, "o">>
SecUpstream == <<"r", DOT, "p">>

Sections == {SecR, SecOrigin, SecUpstream}

ScopeOptions == {NoOptions, [local |-> TRUE], [global |-> TRUE]}

WriteModes ==
  {NoOptions, [add |-> TRUE], [add |-> TRUE, unique |-> TRUE]}

Faults ==
  {NoFault} \cup [at : 1..MaxFaultAt, kind : {"exit", "spawn"}]

(***************************************************************************)
(* The state: the store, and the call a caller has made and not yet        *)
(* looked at (phase "done"), with the store it found; the invocations of   *)
(* git.show in flight; the callers whose operations run invocation by      *)
(* invocation.                                                             *)
(***************************************************************************)
VARIABLES store, phase, last, shows, callers

vars == <<store, phase, last, shows, callers>>

Call(op, key, vals, name, opts, f, pre, o) ==
  [op |-> op, key |-> key, vals |-> vals, name |-> name, opts |-> opts,
   f |-> f, pre |-> pre, raised |-> o.raised, err |-> o.err, val |-> o.val,
   log |-> o.c.log]

NoCall ==
  [op |-> "none", key |-> <<>>, vals |-> JUndefined, name |-> <<>>,
   opts |-> NoOptions, f |-> NoFault, pre |-> EmptyStore, raised |-> "none",
   err |-> NoError, val |-> JUndefined, log |-> <<>>]

Size(st) == Len(st["global"]) + Len(st["local"])

\* an invocation of git.show: its args, its child (spawned or not, the
\* events it has emitted, the text it has written to stderr), the buffer
\* its listener fills, the promise of the executor (inner), the promise
\* git.show returns (outer) and the children whose events settled it
Show(called, args, spawned) ==
  [called |-> called, args |-> args, spawned |-> spawned, errored |-> FALSE,
   closed |-> FALSE, code |-> 0, sent |-> <<>>, bufStdErr |-> <<>>,
   inner |-> Pending, outer |-> Pending, by |-> {}]

NoShow == Show(FALSE, <<>>, FALSE)

\* a caller in a read-then-write operation: pc is "idle", "read" (the
\* operation is called), "write" (the read is done, todo are the values
\* left to write or remove) or "done"; seen is what the read returned,
\* ret what the operation returns, mixed whether a writing invocation of
\* another caller fell between the read and the last write, and after the
\* values of the key when the operation ended
Caller(pc, op, vals, seen, todo, ret, raised, mixed, after) ==
  [pc |-> pc, op |-> op, vals |-> vals, seen |-> seen, todo |-> todo,
   ret |-> ret, raised |-> raised, mixed |-> mixed, after |-> after]

Idle == Caller("idle", "none", <<>>, <<>>, <<>>, <<>>, "none", FALSE, <<>>)

Init ==
  /\ store = EmptyStore
  /\ phase = "idle"
  /\ last = NoCall
  /\ shows = [i \in 1..MaxShows |-> NoShow]
  /\ callers = [c \in 1..MaxCallers |-> Idle]

\* a call runs to its end: the store is what its invocations left
Finish(op, key, vals, name, opts, f, o) ==
  /\ phase = "idle"
  /\ Size(o.c.st) <= MaxEntries
  /\ f.at <= Len(o.c.log)
  /\ store' = o.c.st
  /\ phase' = "done"
  /\ last' = Call(op, key, vals, name, opts, f, store, o)
  /\ UNCHANGED <<shows, callers>>

DoGet(K, M, F) ==
  \E k \in K, s \in ScopeOptions, m \in M, f \in F :
    Finish("get", k, JUndefined, <<>>, extend(s, m), f,
           ConfigGet(k, extend(s, m), Ctx(store, f)))

DoSet(K, V, F) ==
  \E k \in K, v \in ValueArgs(V), s \in ScopeOptions, m \in WriteModes,
     f \in F :
    Finish("set", k, v, <<>>, extend(s, m), f,
           ConfigSet(k, v, extend(s, m), Ctx(store, f)))

DoAdd(K, V, F) ==
  \E k \in K, v \in ValueArgs(V), s \in ScopeOptions,
     m \in {NoOptions, [unique |-> TRUE]}, f \in F :
    Finish("add", k, v, <<>>, extend(s, m), f,
           ConfigAdd(k, v, extend(s, m), Ctx(store, f)))

DoUnset(K, F) ==
  \E k \in K, s \in ScopeOptions, f \in F :
    Finish("unset", k, JUndefined, <<>>, s, f,
           ConfigUnset(k, s, Ctx(store, f)))

DoUnsetMatching(K, V, F) ==
  \E k \in K, v \in ValueArgs(V), s \in ScopeOptions, f \in F :
    Finish("unsetMatching", k, v, <<>>, s, f,
           ConfigUnsetMatching(k, v, s, Ctx(store, f)))

DoSubsections(Secs, F) ==
  \E sec \in Secs, s \in ScopeOptions, f \in F :
    Finish("subsections", sec, JUndefined, <<>>, s, f,
           ConfigSubsections(sec, s, Ctx(store, f)))

DoSectionExists(Secs, F) ==
  \E sec \in Secs, s \in ScopeOptions, f \in F :
    Finish("sectionExists", sec, JUndefined, <<>>, s, f,
           ConfigSectionExists(sec, s, Ctx(store, f)))

DoRemoveSection(Secs, F) ==
  \E sec \in Secs, s \in ScopeOptions, f \in F :
    Finish("removeSection", sec, JUndefined, <<>>, s, f,
           ConfigRemoveSection(sec, s, Ctx(store, f)))

DoRenameSection(Secs, F) ==
  \E sec \in Secs, n \in Secs, s \in ScopeOptions, f \in F :
    Finish("renameSection", sec, JUndefined, n, s, f,
           ConfigRenameSection(sec, n, s, Ctx(store, f)))

\* the caller has looked at the outcome and is ready for its next call
Return ==
  /\ phase = "done"
  /\ phase' = "idle"
  /\ last' = NoCall
  /\ UNCHANGED <<store, shows, callers>>

(***************************************************************************)
(* Spec: the key operations on two keys, the executable never failing for  *)
(* a reason of the environment.                                            *)
(***************************************************************************)
Next ==
  \/ DoGet(Keys, {NoOptions, [all |-> TRUE]}, {NoFault})
  \/ DoSet(Keys, Values, {NoFault})
  \/ DoAdd(Keys, Values, {NoFault})
  \/ DoUnset(Keys, {NoFault})
  \/ DoUnsetMatching(Keys, Values, {NoFault})
  \/ Return

Spec == Init /\ [][Next]_vars

(***************************************************************************)
(* SpecSections: three keys in two subsections of one section, one value,  *)
(* and the operations on sections.                                         *)
(***************************************************************************)
SectionKeys == {KeyOriginUrl, KeyOriginFetch, KeyUpstreamUrl}

SectionPatterns == {SectionPattern(sec) : sec \in Sections}

NextSections ==
  \/ DoAdd(SectionKeys, {ValA}, {NoFault})
  \/ DoGet(SectionPatterns, {[regex |-> TRUE]}, {NoFault})
  \/ DoSubsections(Sections, {NoFault})
  \/ DoSectionExists(Sections, {NoFault})
  \/ DoRemoveSection(Sections, {NoFault})
  \/ DoRenameSection(Sections, {NoFault})
  \/ Return

SpecSections == Init /\ [][NextSections]_vars

(***************************************************************************)
(* SpecFault: every operation on one key and its section, with the         *)
(* environment free to make one invocation of a call fail.                 *)
(***************************************************************************)
FaultKeys == {KeyOriginUrl}

FaultSections == {SecOrigin}

NextFault ==
  \/ DoGet(FaultKeys, {NoOptions, [all |-> TRUE]}, Faults)
  \/ DoGet({SectionPattern(SecOrigin)}, {[regex |-> TRUE]}, Faults)
  \/ DoSet(FaultKeys, Values, Faults)
  \/ DoAdd(FaultKeys, Values, Faults)
  \/ DoUnset(FaultKeys, Faults)
  \/ DoUnsetMatching(FaultKeys, Values, Faults)
  \/ DoSubsections(FaultSections, Faults)
  \/ DoSectionExists(FaultSections, Faults)
  \/ DoRemoveSection(FaultSections, Faults)
  \/ DoRenameSection(FaultSections, Faults)
  \/ Return

SpecFault == Init /\ [][NextFault]_vars

(***************************************************************************)
(* SpecShow: invocations of git.show in flight together.  The child of an  *)
(* invocation is spawned or fails to spawn; a spawned child writes to its  *)
(* stderr and closes with an exit code; a child that failed to spawn emits *)
(* 'error' and closes with the negative code of the failure, and the two   *)
(* events are taken in either order.  The function given to then runs once *)
(* the promise of the executor is settled.                                 *)
(***************************************************************************)
ArgShow == <<"s">>
ArgHead == <<"h">>

\* the arguments of a call: one array, or a text and an array
ShowInputs ==
  {<<JList(<<ArgShow, ArgHead>>)>>, <<JStr(ArgShow), JList(<<ArgHead>>)>>,
   <<JStr(ArgShow)>>}

Chunks == {<<"e", NL>>}

ExitCodes == {0, 1}

\* git.show(args): the promise is created and the child spawned
ShowCall(i) ==
  /\ ~shows[i].called
  /\ \E a \in ShowInputs, ok \in BOOLEAN :
       shows' = [shows EXCEPT ![i] = Show(TRUE, ShowArgs(a), ok)]
  /\ UNCHANGED <<store, phase, last, callers>>

\* child.stderr.on("data", [].push.bind(bufStdErr))
ShowData(i) ==
  /\ shows[i].called /\ shows[i].spawned /\ ~shows[i].closed
  /\ Len(shows[i].sent) < MaxChunks
  /\ \E ch \in Chunks :
       shows' = [shows EXCEPT ![i].sent = Append(@, ch),
                              ![i].bufStdErr = Append(@, ch)]
  /\ UNCHANGED <<store, phase, last, callers>>

\* child.on("error", reject)
ShowError(i) ==
  /\ shows[i].called /\ ~shows[i].spawned /\ ~shows[i].errored
  /\ shows' = [shows EXCEPT
                 ![i].errored = TRUE,
                 ![i].inner = Settle(@, "rejected", PSpawnError),
                 ![i].by = IF shows[i].inner.state = "pending"
                           THEN @ \cup {i} ELSE @]
  /\ UNCHANGED <<store, phase, last, callers>>

\* child.on("close", resolve)
ShowClose(i) ==
  /\ shows[i].called /\ ~shows[i].closed
  /\ \E code \in (IF shows[i].spawned THEN ExitCodes ELSE {SpawnFailCode}) :
       shows' = [shows EXCEPT
                  ![i].closed = TRUE,
                  ![i].code = code,
                  ![i].inner = Settle(@, "fulfilled", PCode(code)),
                  ![i].by = IF shows[i].inner.state = "pending"
                            THEN @ \cup {i} ELSE @]
  /\ UNCHANGED <<store, phase, last, callers>>

\* .then(function(code) {...}): the returned promise follows the settled one
ShowThen(i) ==
  /\ shows[i].inner.state # "pending"
  /\ shows[i].outer.state = "pending"
  /\ shows' = [shows EXCEPT
                 ![i].outer =
                   Settle(@, Then(shows[i].inner, shows[i].args,
                                  shows[i].bufStdErr).state,
                          Then(shows[i].inner, shows[i].args,
                               shows[i].bufStdErr).val)]
  /\ UNCHANGED <<store, phase, last, callers>>

NextShow ==
  \E i \in 1..MaxShows :
    \/ ShowCall(i)
    \/ ShowData(i)
    \/ ShowError(i)
    \/ ShowClose(i)
    \/ ShowThen(i)

\* the event loop runs the reactions of a settled promise
SpecShow ==
  Init /\ [][NextShow]_vars /\ \A i \in 1..MaxShows : WF_vars(ShowThen(i))

(***************************************************************************)
(* SpecRace: callers against one store, each operation running one         *)
(* invocation of the executable at a time, so that the invocations of two  *)
(* operations interleave.  The operations are the two that read and then   *)
(* write: set with {add, unique} and unsetMatching, on one key of the      *)
(* local file.                                                             *)
(***************************************************************************)
RaceKey == KeyOriginUrl

ValB == <<"b">>

RaceValues == {ValA, ValB}

RaceScope == [local |-> TRUE]

RaceOptions(op) ==
  IF op = "set"
  THEN extend(SetDefaults, extend(RaceScope, [add |-> TRUE, unique |-> TRUE]))
  ELSE extend(ScopeDefaults, RaceScope)

RaceHeld(st) == ValuesOf(st[WriteFile({"--local"})], RaceKey)

\* the operation is called
RaceCall(c) ==
  /\ callers[c].pc = "idle"
  /\ \E op \in {"set", "unsetMatching"}, v \in RaceValues :
       callers' = [callers EXCEPT
                    ![c] = Caller("read", op, castArray(JStr(v)), <<>>, <<>>,
                                  <<>>, "none", FALSE, <<>>)]
  /\ UNCHANGED <<store, phase, last, shows>>

\* var currentValues = git.config.get(key, getOptions), and the
\* difference or intersection taken from it
RaceTodo(op, vals, current) ==
  IF op = "set" THEN ValuesToWrite(vals, RaceOptions(op), current)
  ELSE ValuesToUnset(vals, current)

\* the caller after its read: the values left are also what it returns
AfterRead(cr, seen, todo) ==
  [cr EXCEPT !.pc = "write", !.seen = seen, !.todo = todo, !.ret = todo]

RaceRead(c) ==
  /\ callers[c].pc = "read"
  /\ callers' =
       [callers EXCEPT
         ![c] = AfterRead(@, RaceHeld(store),
                  RaceTodo(callers[c].op, callers[c].vals,
                           ConfigGet(RaceKey,
                                     extend(RaceOptions(callers[c].op),
                                            [all |-> TRUE]),
                                     Ctx(store, NoFault)).val.list))]
  /\ UNCHANGED <<store, phase, last, shows>>

\* one turn of values.forEach: one invocation
RaceExec(op, val, st) ==
  IF op = "set"
  THEN AddEach(SetFlags(RaceOptions(op)), RaceKey, <<val>>, Ctx(st, NoFault))
  ELSE UnsetEach(ScopeFlags(RaceOptions(op)), RaceKey, <<val>>,
                 Ctx(st, NoFault))

\* the callers between their read and their end see a foreign write
Mix(cs, c) ==
  [d \in DOMAIN cs |->
     IF d # c /\ cs[d].pc = "write" THEN [cs[d] EXCEPT !.mixed = TRUE]
     ELSE cs[d]]

RaceWrite(c) ==
  /\ callers[c].pc = "write"
  /\ callers[c].todo # <<>>
  /\ Size(RaceExec(callers[c].op, Head(callers[c].todo), store).c.st)
       <= MaxEntries
  /\ store' = RaceExec(callers[c].op, Head(callers[c].todo), store).c.st
  /\ callers' =
       [Mix(callers, c) EXCEPT
         ![c].todo = Tail(@),
         ![c].raised =
           RaceExec(callers[c].op, Head(callers[c].todo), store).raised,
         ![c].pc =
           IF RaceExec(callers[c].op, Head(callers[c].todo),
                       store).raised # "none"
           THEN "done" ELSE "write",
         ![c].after =
           RaceHeld(RaceExec(callers[c].op, Head(callers[c].todo),
                             store).c.st)]
  /\ UNCHANGED <<phase, last, shows>>

\* return values
RaceEnd(c) ==
  /\ callers[c].pc = "write"
  /\ callers[c].todo = <<>>
  /\ callers' = [callers EXCEPT ![c].pc = "done",
                                ![c].after = RaceHeld(store)]
  /\ UNCHANGED <<store, phase, last, shows>>

\* the caller has looked at the outcome
RaceReturn(c) ==
  /\ callers[c].pc = "done"
  /\ callers' = [callers EXCEPT ![c] = Idle]
  /\ UNCHANGED <<store, phase, last, shows>>

NextRace ==
  \E c \in 1..MaxCallers :
    \/ RaceCall(c)
    \/ RaceRead(c)
    \/ RaceWrite(c)
    \/ RaceEnd(c)
    \/ RaceReturn(c)

SpecRace == Init /\ [][NextRace]_vars

(***************************************************************************)
(* Vocabulary of the properties                                            *)
(***************************************************************************)
Done(op) == phase = "done" /\ last.op = op

Has(o, n) == n \in DOMAIN o /\ o[n]

\* the scope part of an options object, and the scope words it stands for
ScopeOf(o) == [n \in (DOMAIN o) \cap {"global", "local"} |-> o[n]]

ScopeWords(o) ==
  (IF Has(o, "global") THEN {"--global"} ELSE {})
  \cup (IF Has(o, "local") THEN {"--local"} ELSE {})

\* a set or add that appends, and one that appends unique values only
Appending == Done("add") \/ (Done("set") /\ Has(last.opts, "add"))
Replacing == Done("set") /\ ~Has(last.opts, "add")
AppendingUnique == Appending /\ Has(last.opts, "unique")

\* the values the caller asked for, as a list
Requested == castArray(last.vals)

\* the values of the call's key in the file the call writes, and in the
\* files a read in the call's scope consults
Held(st) == ValuesOf(st[WriteFile(ScopeWords(last.opts))], last.key)
Visible(st) == ValuesOf(ReadEntries(st, ScopeWords(last.opts)), last.key)

\* the values of the --add invocations of a log, in order
Written(log) ==
  LET adds == SelectSeq(log, LAMBDA argv : W("--add") \in Range(argv))
  IN [i \in 1..Len(adds) |-> adds[i][Len(adds[i])]]

NoRepeat(s) == \A i, j \in 1..Len(s) : s[i] = s[j] => i = j

\* texts that trimRight leaves as they are
Plain(vs) == \A i \in 1..Len(vs) : vs[i] # <<>> /\ ~IsWhite(vs[i][Len(vs[i])])

\* a read of the call's key in the call's scope, right after the call
ReadBack(mode) ==
  ConfigGet(last.key, extend(ScopeOf(last.opts), mode), Ctx(store, NoFault))

(***************************************************************************)
(* C1  Replace round trip: after set(k, V, {add:false}) in an explicit     *)
(* scope (local or global), get(k, {all:true}) in the same scope returns   *)
(* exactly V in order.  (The claim also covers the default scope, where    *)
(* the values of the global file stay visible.)                            *)
(***************************************************************************)
C1_ReplaceRoundTrip ==
  (Replacing /\ last.raised = "none" /\ ScopeWords(last.opts) # {})
    => ReadBack([all |-> TRUE]).val = JList(Requested)

(***************************************************************************)
(* C2  Single-value round trip: after set(k, v) with default options,      *)
(* get(k) with default options returns v.                                  *)
(***************************************************************************)
C2_SingleRoundTrip ==
  (Done("set") /\ last.opts = NoOptions /\ last.vals.kind = "string"
     /\ last.raised = "none")
    => ReadBack(NoOptions).val = JStr(last.vals.str)

(***************************************************************************)
(* C3  Unique add: set(k, V, {add:true, unique:true}) never stores a value *)
(* that is already present and never stores the same value twice, and a    *)
(* second application right after it issues no write.  Stated on values    *)
(* that trimRight leaves alone, in an explicit scope.                      *)
(***************************************************************************)
C3_UniqueAddIdempotent ==
  (AppendingUnique /\ last.raised = "none" /\ ScopeWords(last.opts) # {}
     /\ Plain(Requested) /\ Plain(Held(last.pre)))
    => /\ NoRepeat(Written(last.log))
       /\ Range(Written(last.log)) \cap Range(Held(last.pre)) = {}
       /\ Written(ConfigSet(last.key, last.vals,
                            extend(last.opts, [add |-> TRUE]),
                            Ctx(store, NoFault)).c.log) = <<>>
       /\ \A v \in Range(Requested) \ Range(Held(last.pre)) :
            Len(SelectSeq(Held(store), LAMBDA x : x = v)) = 1

(***************************************************************************)
(* C4  unsetMatching(k, V) removes from k exactly the entries whose value  *)
(* is in V, returns the intersection of V and k's values, and leaves the   *)
(* other values of k untouched, also when a requested value occurs more    *)
(* than once in k.  Stated on values that trimRight leaves alone, in an    *)
(* explicit scope.                                                         *)
(***************************************************************************)
C4_UnsetMatchingExact ==
  (Done("unsetMatching") /\ ScopeWords(last.opts) # {}
     /\ Plain(Requested) /\ Plain(Held(last.pre)) /\ Held(last.pre) # <<>>)
    => /\ last.raised = "none"
       /\ last.val = JList(intersection(Requested, Held(last.pre)))
       /\ Held(store) = SelectOut(Held(last.pre), Range(Requested))

(***************************************************************************)
(* C5  Soft miss: get never raises, and when the lookup fails it returns   *)
(* null in the default mode, an empty list with all, and an empty mapping  *)
(* (an object without keys, as a successful regex read returns an object)  *)
(* with regex.                                                             *)
(***************************************************************************)
GetMissed ==
  IF Has(last.opts, "regex")
  THEN \A f \in Files : \A i \in 1..Len(last.pre[f]) :
         f \in Range(ReadFiles(ScopeWords(last.opts)))
           => ~RegexMatches(last.key, last.pre[f][i].key)
  ELSE Visible(last.pre) = <<>>

C5_SoftMiss ==
  Done("get")
    => /\ last.raised = "none"
       /\ (GetMissed \/ last.f.at = 1)
            => last.val = IF Has(last.opts, "regex") THEN JMap(<<>>)
                          ELSE IF Has(last.opts, "all") THEN JList(<<>>)
                          ELSE JNull

C7_SubsectionsOnce ==
  (Done("subsections") /\ last.raised = "none") => NoRepeat(last.val.list)

(***************************************************************************)
(* C8  sectionExists(s) is true iff a key of the scope starts with "s.";   *)
(* when it is false a removeSection(s) issued right after it in the same   *)
(* scope raises a GitError and changes nothing, and when it is true the    *)
(* removal succeeds and sectionExists(s) is false afterwards.  Stated for  *)
(* the explicit scopes.                                                    *)
(***************************************************************************)
StartsWith(s, prefix) ==
  Len(s) >= Len(prefix) /\ SubSeq(s, 1, Len(prefix)) = prefix

RemoveNow == ConfigRemoveSection(last.key, last.opts, Ctx(store, NoFault))

C8_ExistsThenRemovable ==
  (Done("sectionExists") /\ last.raised = "none" /\ ScopeWords(last.opts) # {})
    => /\ last.val.bool
            <=> \E i \in 1..Len(ReadEntries(store, ScopeWords(last.opts))) :
                  StartsWith(ReadEntries(store, ScopeWords(last.opts))[i].key,
                             last.key \o <<DOT>>)
       /\ ~last.val.bool
            => RemoveNow.raised = "GitError" /\ RemoveNow.c.st = store
       /\ last.val.bool
            => /\ RemoveNow.raised = "none"
               /\ ~ConfigSectionExists(last.key, last.opts,
                                       Ctx(RemoveNow.c.st, NoFault)).val.bool

(***************************************************************************)
(* C9  Replace-mode set appears atomic: when set(k, V, {add:false}) raises *)
(* the values of k in the file it writes are exactly those held before the *)
(* call or exactly V, never none of them or a prefix of V.                 *)
(***************************************************************************)
C9_ReplaceAtomic ==
  (Replacing /\ last.raised # "none")
    => Held(store) = Held(last.pre) \/ Held(store) = Requested

(***************************************************************************)
(* C10  An invocation error is never swallowed: a call in which the        *)
(* executable could not be started raises an error that is not the         *)
(* GitError of a non-zero exit.                                            *)
(***************************************************************************)
SpawnFailed == last.f.kind = "spawn" /\ last.f.at >= 1

C10_InvocationErrorFatal ==
  (phase = "done" /\ SpawnFailed) => last.raised \notin {"none", "GitError"}

(***************************************************************************)
(* C11  git.exec returns the trimmed stdout when the exit status is 0 and  *)
(* otherwise raises a GitError whose fields are the exit status, the       *)
(* invoked command (the whole flattened argument list that was run), the   *)
(* trimmed stdout and the trimmed stderr.  Stated on the calls that are    *)
(* one git.exec each: unset, removeSection, renameSection.                 *)
(***************************************************************************)
OneExec ==
  /\ phase = "done"
  /\ last.op \in {"unset", "removeSection", "renameSection"}
  /\ last.f.kind = "exit"

\* what the one invocation of the call gave
OneRun == spawnSync(last.log[1], Ctx(last.pre, last.f))

C11_ExecError ==
  OneExec
    => /\ OneRun.status = 0 => last.raised = "none"
       /\ OneRun.status # 0
            => /\ last.raised = "GitError"
               /\ last.err = GitError(OneRun.status, last.log[1],
                                      trimRight(OneRun.stdout),
                                      trimRight(OneRun.stderr))

(***************************************************************************)
(* C12  (as claimed) an invocation of git.show whose child has closed is   *)
(* fulfilled with no value iff the child closed with code 0 and rejected   *)
(* with a GitError iff it closed with a non-zero code, under any ordering  *)
(* of the child's 'error' and 'close' events.                              *)
(***************************************************************************)
ShowSettled(i) == shows[i].outer.state # "pending"

C12_SettledByCloseCode ==
  \A i \in 1..MaxShows :
    (ShowSettled(i) /\ shows[i].closed)
      => /\ shows[i].outer.state = "fulfilled" <=> shows[i].code = 0
         /\ shows[i].outer.val.kind = "GitError" <=> shows[i].code # 0

(***************************************************************************)
(* C12  (amended) every invocation of git.show settles exactly once, only  *)
(* after its child has emitted 'close' or 'error', and by an event of its  *)
(* own child only; the first of the child's events decides: a close with   *)
(* code 0 fulfils it with no value, a close with another code rejects it   *)
(* with a GitError carrying the code, the individually quoted arguments,   *)
(* an empty output and the trimmed text the child wrote to stderr, and an  *)
(* 'error' rejects it with the error of the event, whatever code a later   *)
(* close carries.  Once the child's event is in, the invocation settles.   *)
(***************************************************************************)
ShowSettlesRight(s, i) ==
  /\ s.inner.n <= 1 /\ s.outer.n <= 1
  /\ s.by \subseteq {i}
  /\ s.inner.state = "fulfilled" => s.closed /\ s.inner.val = PCode(s.code)
  /\ s.inner.state = "rejected" => s.errored /\ s.inner.val = PSpawnError
  /\ s.outer.state # "pending"
       => /\ s.inner.state # "pending"
          /\ s.outer.n = 1
          /\ (s.inner.state = "fulfilled" /\ s.inner.val.code = 0)
               <=> (s.outer.state = "fulfilled" /\ s.outer.val = PNothing)
          /\ (s.inner.state = "fulfilled" /\ s.inner.val.code # 0)
               <=> s.outer.val.kind = "GitError"
          /\ s.outer.val.kind = "GitError"
               => /\ s.outer.state = "rejected"
                  /\ s.outer.val.err =
                       GitError(s.code, concatArgs(s.args), <<>>,
                                trimRight(Concat(s.sent)))
          /\ s.inner.state = "rejected"
               <=> (s.outer.state = "rejected" /\ s.outer.val = PSpawnError)

C12_SettlesOnce ==
  /\ [](\A i \in 1..MaxShows : ShowSettlesRight(shows[i], i))
  /\ \A i \in 1..MaxShows :
       (shows[i].closed \/ shows[i].errored) ~> ShowSettled(i)

\* two invocations in flight together, one fulfilled and one rejected with
\* the stderr its child wrote, and one whose child emitted both events
C12_Witness ==
  \E i, j \in 1..MaxShows :
    /\ shows[i].outer.state = "fulfilled"
    /\ shows[j].outer.val.kind = "GitError"
    /\ shows[j].sent # <<>>
    /\ Len(shows[j].args) > 1

(***************************************************************************)
(* C13  (as claimed) a spawn failure rejects the pending completion of     *)
(* git.show with a GitError built from the reconstructed command line and  *)
(* the buffered stderr, as a non-zero exit does.                           *)
(***************************************************************************)
SpawnFailedShow(i) ==
  shows[i].called /\ ~shows[i].spawned /\ ShowSettled(i)

C13_SpawnFailureGitError ==
  \A i \in 1..MaxShows :
    SpawnFailedShow(i)
      => /\ shows[i].outer.state = "rejected"
         /\ shows[i].outer.val.kind = "GitError"
         /\ shows[i].outer.val.err.command = concatArgs(shows[i].args)

(***************************************************************************)
(* C13  (amended) a spawn failure always rejects the pending completion of *)
(* git.show and never fulfils it, whatever code the close event carries,   *)
(* but not the way a non-zero exit does: when the child's 'error' event is *)
(* the first to arrive the rejection is the error of that event, with no   *)
(* GitError, command line or stderr; only when 'close' arrives first is it *)
(* a GitError, carrying the code of the close and an empty stderr.         *)
(***************************************************************************)
C13_SpawnFailureRejects ==
  \A i \in 1..MaxShows :
    SpawnFailedShow(i)
      => /\ shows[i].outer.state = "rejected"
         /\ shows[i].inner.state = "rejected"
              => shows[i].outer.val = PSpawnError
         /\ shows[i].inner.state = "fulfilled"
              => shows[i].outer.val =
                   PGitError(GitError(SpawnFailCode,
                                      concatArgs(shows[i].args), <<>>, <<>>))

\* a child that failed to spawn emitted 'error' and then closed, and the
\* invocation is rejected with the error of the event
C13_Witness ==
  \E i \in 1..MaxShows :
    /\ SpawnFailedShow(i)
    /\ shows[i].errored /\ shows[i].closed
    /\ shows[i].outer.val = PSpawnError

(***************************************************************************)
(* The invocations of the call just made, replayed from the store the call *)
(* found: the context before invocation n, what invocation n gave, and     *)
(* whether it failed (a non-zero status, or not started).                  *)
(***************************************************************************)
RECURSIVE ReplayCtx(_)
ReplayCtx(n) ==
  IF n = 0 THEN Ctx(last.pre, last.f)
  ELSE RunResult(spawnSync(last.log[n], ReplayCtx(n - 1)), last.log[n],
                 ReplayCtx(n - 1)).c

RunAt(n) == spawnSync(last.log[n], ReplayCtx(n - 1))

FailedAt(n) == ~RunAt(n).spawned \/ RunAt(n).status # 0

\* the clear step of a replace-mode set, and the read step of a unique
\* append or an unsetMatching
IsClear(n) == Replacing /\ n = 1
IsRead(n) == W("--get-all") \in Range(last.log[n])

WriteOp ==
  /\ phase = "done"
  /\ last.op \in {"set", "add", "unset", "unsetMatching", "removeSection",
                   "renameSection"}

(***************************************************************************)
(* C14  (as claimed) failure suppression happens only in the clear step of *)
(* replace-mode set: every other failing invocation issued by set, add,    *)
(* unset, unsetMatching, removeSection and renameSection is propagated to  *)
(* the caller.                                                             *)
(***************************************************************************)
C14_OnlyClearSuppressed ==
  WriteOp
    => \A n \in 1..Len(last.log) :
         (FailedAt(n) /\ ~IsClear(n)) => last.raised # "none"

(***************************************************************************)
(* C14  (amended) unset(k) on a key with no values in the scope raises a   *)
(* GitError and leaves the store unchanged; a replace-mode set whose clear *)
(* step fails does not raise because of it and goes on to write every      *)
(* value of V; besides the clear step, the read step of unique append and  *)
(* of unsetMatching is suppressed as well (the soft miss of get); every    *)
(* other failing invocation of set, add, unset, unsetMatching,             *)
(* removeSection and renameSection ends the call and is propagated.        *)
(***************************************************************************)
C14_SuppressedInClearAndRead ==
  WriteOp
    => /\ \A n \in 1..Len(last.log) :
            (FailedAt(n) /\ ~IsClear(n) /\ ~IsRead(n))
              => last.raised # "none" /\ n = Len(last.log)
       /\ \A n \in 1..Len(last.log) :
            (FailedAt(n) /\ IsRead(n) /\ n = Len(last.log))
              => last.raised = "none"
       /\ (Done("unset") /\ Held(last.pre) = <<>> /\ ~SpawnFailed)
            => last.raised = "GitError" /\ store = last.pre
       /\ (Replacing /\ FailedAt(1))
            => /\ Requested # <<>> => Len(last.log) > 1
               /\ (\A n \in 2..Len(last.log) : ~FailedAt(n))
                    => last.raised = "none" /\ Written(last.log) = Requested

\* a replace-mode set on a key without values: the clear failed, the call
\* returned and wrote its two values
C14_Witness ==
  /\ Replacing
  /\ Held(last.pre) = <<>>
  /\ FailedAt(1)
  /\ last.raised = "none"
  /\ Len(Requested) = 2
  /\ Held(store) = Requested

(***************************************************************************)
(* C15  Read operations never mutate: get in every mode, sectionExists and *)
(* subsections issue no invocation that writes and leave the values of     *)
(* every key in every scope unchanged, whether the lookup succeeds or      *)
(* fails.                                                                  *)
(***************************************************************************)
ReadOp ==
  phase = "done" /\ last.op \in {"get", "sectionExists", "subsections"}

WriteWords ==
  {"--add", "--unset", "--unset-all", "--remove-section", "--rename-section"}

C15_ReadsNeverMutate ==
  ReadOp
    => /\ store = last.pre
       /\ \A n \in 1..Len(last.log) :
            \A w \in WriteWords : W(w) \notin Range(last.log[n])

\* reads over a store that holds values: one that found them, and one
\* that failed
C15_Witness ==
  /\ ReadOp
  /\ store # EmptyStore
  /\ \/ Done("sectionExists") /\ last.val.bool
     \/ Done("get") /\ FailedAt(1)

(***************************************************************************)
(* C16  Append mode never removes: after set(k, V, {add:true}) or          *)
(* add(k, V), with or without unique, the values k held before the call    *)
(* are still there, in their order and before any new one, also when the   *)
(* call raised; with unique false a call that returned leaves the old      *)
(* list followed by V in the order given.  In both cases the new list is   *)
(* the old one followed by the values the call wrote.                      *)
(***************************************************************************)
IsPrefix(s, u) == Len(s) <= Len(u) /\ SubSeq(u, 1, Len(s)) = s

\* the values of the --add invocations of the call that did not fail
Added ==
  LET ok == {n \in 1..Len(last.log) :
               W("--add") \in Range(last.log[n]) /\ ~FailedAt(n)}
  IN SelectSeq([n \in 1..Len(last.log) |->
                  IF n \in ok THEN <<last.log[n][Len(last.log[n])]>>
                  ELSE <<>>],
               LAMBDA x : x # <<>>)

C16_AppendKeeps ==
  Appending
    => /\ IsPrefix(Held(last.pre), Held(store))
       /\ Held(store) = Held(last.pre) \o Concat(Added)
       /\ (last.raised = "none" /\ ~Has(last.opts, "unique"))
            => Held(store) = Held(last.pre) \o Requested

\* a plain append to a key that already held a value
C16_Witness ==
  /\ Appending
  /\ ~Has(last.opts, "unique")
  /\ last.raised = "none"
  /\ Held(last.pre) # <<>>
  /\ Requested # <<>>
  /\ Len(Held(store)) = Len(Held(last.pre)) + Len(Requested)

(***************************************************************************)
(* C17  get with regex maps the store's output lines to a mapping from key *)
(* to ordered value list: each line is split at its first space into key   *)
(* and rest of line, every line contributes exactly one value to the list  *)
(* of its key, the lists keep the order of the lines, and the values of    *)
(* all keys together are as many as the lines.                             *)
(***************************************************************************)
\* the entries the store prints for the pattern, one line each
Hits ==
  SelectSeq(ReadEntries(last.pre, ScopeWords(last.opts)),
            LAMBDA e : RegexMatches(last.key, e.key))

RegexRead ==
  Done("get") /\ Has(last.opts, "regex") /\ last.f.at = 0 /\ Hits # <<>>

C17_RegexGrouping ==
  RegexRead
    => /\ last.raised = "none"
       /\ last.val.kind = "object"
       /\ NoRepeat([i \in 1..Len(last.val.map) |-> last.val.map[i].key])
       /\ {last.val.map[i].key : i \in 1..Len(last.val.map)}
            = {Hits[j].key : j \in 1..Len(Hits)}
       /\ \A i \in 1..Len(last.val.map) :
            last.val.map[i].vals = ValuesOf(Hits, last.val.map[i].key)
       /\ Len(Concat([i \in 1..Len(last.val.map) |-> last.val.map[i].vals]))
            = Len(Hits)

(***************************************************************************)
(* C18  The read-then-write operations are not atomic across callers, but  *)
(* keep their guarantees when run alone: whenever no writing invocation of *)
(* another caller falls between the read of an operation and its end, a    *)
(* unique append writes its value iff the key did not hold it and leaves   *)
(* no value twice on its account, and unsetMatching returns and removes    *)
(* exactly the intersection of its values with the values of the key.      *)
(***************************************************************************)
RanAlone(c) == callers[c].pc = "done" /\ ~callers[c].mixed

C18_AloneKeepsGuarantees ==
  \A c \in 1..MaxCallers :
    RanAlone(c)
      => /\ callers[c].raised = "none"
         /\ callers[c].op = "set"
              => /\ callers[c].ret = difference(callers[c].vals, callers[c].seen)
                 /\ callers[c].after = callers[c].seen \o callers[c].ret
         /\ callers[c].op = "unsetMatching"
              => /\ callers[c].ret
                      = intersection(callers[c].vals, callers[c].seen)
                 /\ callers[c].after
                      = SelectOut(callers[c].seen, Range(callers[c].vals))

\* two callers have each appended the same absent value "uniquely", their
\* invocations interleaved, and the key holds it twice
C18_RaceDuplicate ==
  \E c, d \in 1..MaxCallers :
    /\ c # d
    /\ callers[c].pc = "done" /\ callers[d].pc = "done"
    /\ callers[c].op = "set" /\ callers[d].op = "set"
    /\ callers[c].vals = <<ValA>> /\ callers[d].vals = <<ValA>>
    /\ callers[c].seen = <<>> /\ callers[d].seen = <<>>
    /\ callers[c].raised = "none" /\ callers[d].raised = "none"
    /\ RaceHeld(store) = <<ValA, ValA>>

(***************************************************************************)
(* C19  Scope isolation: every invocation issued by a configuration        *)
(* operation, the clear step of replace-mode set and the read step of      *)
(* unique append and unsetMatching included, carries exactly the scope     *)
(* flags the caller requested, so an operation called with {global:true}   *)
(* never changes the local file and one called with {local:true} never     *)
(* changes the global file.                                                *)
(***************************************************************************)
ScopeWordsOf(argv) ==
  {"--global", "--local"} \cap {a[1] : a \in Range(argv) \ {<<>>}}

C19_ScopeIsolation ==
  phase = "done"
    => /\ \A n \in 1..Len(last.log) :
            ScopeWordsOf(last.log[n]) = ScopeWords(last.opts)
       /\ ScopeWords(last.opts) = {"--global"}
            => store["local"] = last.pre["local"]
       /\ ScopeWords(last.opts) = {"--local"}
            => store["global"] = last.pre["global"]

\* a replace-mode set in the global scope, of a key that has a value in
\* the local file too: the clear step and the write changed the global
\* file
C19_Witness ==
  /\ Replacing
  /\ ScopeWords(last.opts) = {"--global"}
  /\ last.raised = "none"
  /\ Len(last.log) > 1
  /\ ~FailedAt(1)
  /\ ValuesOf(last.pre["local"], last.key) # <<>>
  /\ store["global"] # last.pre["global"]

====
